---- MODULE Spec2Model ----
(***************************************************************************)
(* Model of the sync reconciliation engine of obsidian-fit: FitSync        *)
(* (src/src/fitSync.ts), Fit (src/unnamed/part_001) and the encryption and *)
(* type layer (src/unnamed/part_000).  FitPush, FitPull, VaultOperations,  *)
(* compareSha and the snapshot callback are collaborators whose code is    *)
(* not among the sources; they are modelled from the specification.        *)
(***************************************************************************)
EXTENDS Integers, Sequences, FiniteSets, TLC

\* ----------------------------------------------------------------- bounds
MaxNonce == 2
MaxCommits == 3
MaxConcurrentEdits == 1   \* edits of the user during one sync call

\* ------------------------------------------------------------ value space
Contents == {"x", "y"}
Nonces == 1..MaxNonce
NoFile == "absent"
NoCommit == 0

Paths == {<<"a">>, <<"b">>}
conflictResolutionFolder == "_fit"
\* Mutant: the conflicting remote content is written over the working file.
QuarantinePath_Working(path) == path

QuarantinePath(path) == <<conflictResolutionFolder>> \o path
\* The path of a file committed to the repository without this plugin: its
\* tree entry carries the path as it is.
PlainPath == <<"readme.md">>
AllPaths == Paths \cup {QuarantinePath(p) : p \in Paths} \cup {PlainPath}
PathOrder == <<
  <<"a">>, <<"b">>, <<"_fit", "a">>, <<"_fit", "b">>, <<"readme.md">> >>
InFit(path) == Len(path) > 1 /\ path[1] = conflictResolutionFolder

\* The elements of S as a list, in the order of PathOrder (the key order of
\* an object literal is abstracted to one fixed order).
KeysOf(S) == SelectSeq(PathOrder, LAMBDA p : p \in S)

RECURSIVE FlatMap(_, _)
FlatMap(F(_), s) ==
  IF s = <<>> THEN <<>> ELSE F(Head(s)) \o FlatMap(F, Tail(s))

SeqMap(F(_), s) == [i \in 1..Len(s) |-> F(s[i])]
Range(s) == {s[i] : i \in 1..Len(s)}
PathsOf(changes) == {changes[i].path : i \in 1..Len(changes)}
Some(s, P(_)) == \E i \in 1..Len(s) : P(s[i])
Every(s, P(_)) == \A i \in 1..Len(s) : P(s[i])

\* ----------------------------------------------------------- base64 text
\* A base64 string is its decoded bytes plus whether it carries line breaks.
arrayBufferToBase64(bytes) == [data |-> bytes, nl |-> FALSE]
base64ToArrayBuffer(text) == text.data
removeLineEndingsFromBase64String(text) == [text EXCEPT !.nl = FALSE]

\* ------------------------------------------------------ encryption layer
\* AES-GCM with a fresh 12-byte IV: the ciphertext is a function of the
\* plaintext and the IV drawn for the call.
encrypt(plainText, iv) == [content |-> plainText, nonce |-> iv]
CanDecrypt(cipher) == cipher.nonce \in Nonces
decrypt(cipher) == cipher.content

\* A blob that was not written through encrypt: the API returns its bytes in
\* base64 with line breaks, and AES-GCM decryption of it fails.
PlainBlob(bytes) == [content |-> [data |-> bytes, nl |-> TRUE], nonce |-> 0]

\* AES-CTR with the fixed all-zero counter over the deflated path.
\* Mutant: only the file name goes into the token.
encryptPath_Lossy(path) == <<"enc", path[Len(path)]>>

encryptPath(path) == <<"enc">> \o path
CanDecryptPath(token) == Len(token) > 1 /\ token[1] = "enc"
decryptPath(token) == Tail(token)

\* ------------------------------------------------------ content identity
fileSha1(fileContent) == fileContent
computeFileLocalSha(path, v) == fileSha1(<<path, v[path]>>)

\* Mutant: every file of the vault is fingerprinted.
computeLocalShaOf_Unfiltered(v) ==
  [p \in {q \in AllPaths : v[q] # NoFile} |-> computeFileLocalSha(p, v)]

computeLocalShaOf(v) ==
  [p \in {q \in AllPaths : v[q] # NoFile /\ ~InFit(q)} |->
      computeFileLocalSha(p, v)]

\* ------------------------------------------------------- change detector
determineStatus(env, currentSha, storedSha, hasCurrent, hasStored) ==
  IF hasCurrent /\ hasStored /\ currentSha # storedSha
    THEN (IF env = "local" THEN "changed" ELSE "MODIFIED")
  ELSE IF hasCurrent /\ ~hasStored
    THEN (IF env = "local" THEN "created" ELSE "ADDED")
  ELSE IF ~hasCurrent /\ hasStored
    THEN (IF env = "local" THEN "deleted" ELSE "REMOVED")
  ELSE "none"

NoSha == [content |-> [data |-> NoFile, nl |-> FALSE], nonce |-> 0]

compareSha(currentShaMap, storedShaMap, env) ==
  LET One(path) ==
        LET hasC == path \in DOMAIN currentShaMap
            hasS == path \in DOMAIN storedShaMap
            st == determineStatus(env,
                    IF hasC THEN currentShaMap[path] ELSE NoSha,
                    IF hasS THEN storedShaMap[path] ELSE NoSha, hasC, hasS)
        IN IF st = "none" THEN <<>>
           ELSE <<[path |-> path, status |-> st,
                   currentSha |-> IF hasC /\ env = "remote"
                                    THEN currentShaMap[path] ELSE NoSha]>>
  IN FlatMap(One, KeysOf(DOMAIN currentShaMap \cup DOMAIN storedShaMap))

\* ------------------------------------------------------ clash classifier
IndexOf(s, x) ==
  IF \E i \in 1..Len(s) : s[i] = x
    THEN CHOOSE i \in 1..Len(s) : s[i] = x /\ \A j \in 1..(i - 1) : s[j] # x
    ELSE 0

\* Mutant: a local change clashes only with the remote change at its own index.
getClashedChanges_Zipped(localChanges, remoteChanges) ==
  FlatMap(LAMBDA i : IF /\ i <= Len(remoteChanges)
                        /\ remoteChanges[i].path = localChanges[i].path
                       THEN <<[path |-> localChanges[i].path,
                               localStatus |-> localChanges[i].status,
                               remoteStatus |-> remoteChanges[i].status]>>
                       ELSE <<>>,
          [i \in 1..Len(localChanges) |-> i])

getClashedChanges(localChanges, remoteChanges) ==
  LET localChangePaths == SeqMap(LAMBDA c : c.path, localChanges)
      remoteChangePaths == SeqMap(LAMBDA c : c.path, remoteChanges)
      Entry(localIndex) ==
        LET remoteIndex == IndexOf(remoteChangePaths, localChangePaths[localIndex])
        IN IF remoteIndex # 0
             THEN <<[path |-> localChangePaths[localIndex],
                     localStatus |-> localChanges[localIndex].status,
                     remoteStatus |-> remoteChanges[remoteIndex].status]>>
             ELSE <<>>
  IN FlatMap(Entry, [i \in 1..Len(localChanges) |-> i])

\* ------------------------------------------------------------------ state
VARIABLES
  vault,                 \* local files: path -> content (NoFile when absent)
  commits,               \* remote commit objects; a commit id is its index
  ref,                   \* the branch head: a commit id
  localSha,              \* snapshot: local fingerprints at the last sync
  lastFetchedCommitSha,  \* snapshot: remote commit id at the last sync
  lastFetchedRemoteSha,  \* snapshot: remote fingerprints at the last sync
  pc,                    \* position of the running sync call
  pre,                   \* result of performPreSyncChecks of the running call
  loc,                   \* the running call's local variables
  floating,              \* writes started without await, not yet settled
  hist                   \* observations of the current (or last) call

vars == <<vault, commits, ref, localSha, lastFetchedCommitSha,
          lastFetchedRemoteSha, pc, pre, loc, floating, hist>>

EmptyMap == [p \in {} |-> NoSha]

NoPre == [status |-> "none", reads |-> <<>>, remoteChanges |-> <<>>, remoteTreeSha |-> EmptyMap,
          latestRemoteCommitSha |-> NoCommit, clashedFiles |-> <<>>,
          localChanges |-> <<>>, localTreeSha |-> EmptyMap]

NoLoc == [pushDone |-> FALSE, calls |-> <<>>, resolutions |-> <<>>, unresolvedFiles |-> <<>>, fileOpsRecord |-> <<>>,
          localChangesToPush |-> <<>>, todo |-> {}, localFileOpsRecord |-> <<>>,
          treeNodes |-> <<>>, createdTree |-> EmptyMap,
          createdCommitSha |-> NoCommit,
          lastFetchedCommitSha |-> NoCommit, lastFetchedRemoteSha |-> EmptyMap]

\* status: the branch of the call; outcome: "running", "ok" or "error";
\* saves: invocations of saveLocalStoreCallback in the call; opFailed: an
\* operation the call started has failed while the call was running;
\* lateFailure: a detached write has failed since the call ended; edits: the
\* user's edits while the call was running; startVault: the vault when the call
\* started; base: the vault and both change
\* lists when the call started (for a call that directly follows failed calls:
\* when the first of them started); retry: the call directly follows a failed one.
NoBase == [vault |-> [p \in AllPaths |-> NoFile],
           localChanges |-> <<>>, remoteChanges |-> <<>>]
NoError == [class |-> "none", source |-> "none"]

\* The last edit the user made while the call was running: its path and the
\* content it left there (NoFile: the file was deleted).
NoEdit == [path |-> <<>>, content |-> NoFile]

NoHist == [status |-> "none", outcome |-> "none", saves |-> 0,
           remoteFailed |-> FALSE, error |-> NoError,
           opFailed |-> FALSE, lateFailure |-> FALSE, edits |-> 0,
           edited |-> NoEdit,
           base |-> NoBase, retry |-> FALSE,
           startVault |-> NoBase.vault]

\* ------------------------------------------------------------ remote errors
\* The remote operations of Fit, and those whose request is wrapped in a
\* try / catch that rethrows an OctokitHttpError.
RemoteOps == {"getRef", "getCommitTreeSha", "getTree", "createBlob",
              "createTree", "createCommit", "updateRef", "getBlob"}
WrappedOps == {"getRef"}

\* The error sync ends with when operation op fails: the OctokitHttpError of
\* the catch block, else the RequestError of octokit as it was thrown, else
\* the error of the vault.
ErrorOf(op) ==
  IF op \in WrappedOps THEN [class |-> "OctokitHttpError", source |-> op]
  ELSE IF op \in RemoteOps THEN [class |-> "RequestError", source |-> "none"]
  ELSE [class |-> "Error", source |-> "none"]

\* The operations a step at each position of sync calls.
OpsAt(at) ==
  IF at = "idle" THEN {"computeLocalSha", "getRef", "getTree", "getBlob"}
  ELSE IF at = "resolve" THEN {"readBinary", "getBlob", "writeToLocal"}
  ELSE IF at = "push"
    THEN {"getTree", "readBinary", "createBlob", "getCommitTreeSha",
          "createTree", "createCommit"}
  ELSE IF at = "ref" THEN {"updateRef"}
  ELSE IF at = "refetch" THEN {"getTree"}
  ELSE IF at = "pull" THEN {"writeToLocal", "deleteFromLocal"}
  ELSE {"computeLocalSha", "saveLocalStoreCallback"}

\* What sync's caller sees of a failure of an operation at a position.
FailuresAt(at) ==
  {[remoteFailed |-> op \in RemoteOps, error |-> ErrorOf(op)] : op \in OpsAt(at)}

\* ------------------------------------------------------------ remote reads
TokenOrder == SeqMap(encryptPath, PathOrder) \o PathOrder
TokensOf(S) == SelectSeq(TokenOrder, LAMBDA t : t \in S)

\* Fit.getTree: the nodes of a commit's tree, paths decrypted where possible.
getTree(tree_sha) ==
  LET tree == commits[tree_sha].tree
  IN SeqMap(LAMBDA tok :
              [path |-> IF CanDecryptPath(tok) THEN decryptPath(tok) ELSE tok,
               type |-> "blob", sha |-> tree[tok]],
            TokensOf(DOMAIN tree))

\* Object.fromEntries: the last entry of a key wins.
FromEntries(entries) ==
  [k \in {entries[i][1] : i \in 1..Len(entries)} |->
     entries[CHOOSE i \in 1..Len(entries) :
               entries[i][1] = k /\
               \A j \in (i + 1)..Len(entries) : entries[j][1] # k][2]]

getRemoteTreeSha(tree_sha) ==
  FromEntries(FlatMap(LAMBDA node :
                        IF node.type = "blob" /\ ~InFit(node.path)
                          THEN << <<node.path, node.sha>> >> ELSE <<>>,
                      getTree(tree_sha)))

\* Mutant: a blob that cannot be decrypted is skipped (empty content).
getBlob_Skip(file_sha) ==
  IF CanDecrypt(file_sha) THEN decrypt(file_sha)
  ELSE [data |-> NoFile, nl |-> FALSE]

\* Fit.getBlob: the decrypted content, or on a decryption failure the content
\* as fetched.
getBlob(file_sha) ==
  IF CanDecrypt(file_sha) THEN decrypt(file_sha) ELSE file_sha.content

remoteUpdated == [remoteCommitSha |-> ref, updated |-> ref # lastFetchedCommitSha]
\* Mutant: the snapshot is diffed against the current map.
getLocalChanges_Swapped(currentLocalSha) ==
  compareSha(localSha, currentLocalSha, "local")

getLocalChanges(currentLocalSha) == compareSha(currentLocalSha, localSha, "local")
getRemoteChanges(remoteTreeSha) ==
  compareSha(remoteTreeSha, lastFetchedRemoteSha, "remote")

\* --------------------------------------------------- performPreSyncChecks
\* Mutant: any new remote commit with no local change counts as a remote change.
PreSyncStatus_RemoteFirst(localChanges, updated, remoteChanges, clashed) ==
  IF Len(localChanges) = 0 /\ ~updated THEN "inSync"
  ELSE IF Len(localChanges) > 0 /\ ~updated THEN "onlyLocalChanged"
  ELSE IF Len(localChanges) = 0 /\ updated THEN "onlyRemoteChanged"
  ELSE IF updated /\ Len(localChanges) = 0 /\ Len(remoteChanges) = 0
    THEN "onlyRemoteCommitShaChanged"
  ELSE IF Len(clashed) = 0 THEN "localAndRemoteChangesCompatible"
  ELSE "localAndRemoteChangesClashed"

\* The status chosen by performPreSyncChecks (the early return of line 53 and
\* the if-chain of lines 60-84).
PreSyncStatus_NoShortcut(localChanges, updated, remoteChanges, clashed) ==
  IF Len(localChanges) > 0 /\ ~updated THEN "onlyLocalChanged"
  ELSE IF Len(localChanges) = 0 /\ Len(remoteChanges) = 0
    THEN "onlyRemoteCommitShaChanged"
  ELSE IF Len(localChanges) = 0 THEN "onlyRemoteChanged"
  ELSE IF Len(clashed) = 0 THEN "localAndRemoteChangesCompatible"
  ELSE "localAndRemoteChangesClashed"

PreSyncStatus(localChanges, updated, remoteChanges, clashed) ==
  IF Len(localChanges) = 0 /\ ~updated THEN "inSync"
  ELSE IF Len(localChanges) > 0 /\ ~updated THEN "onlyLocalChanged"
  ELSE IF updated /\ Len(localChanges) = 0 /\ Len(remoteChanges) = 0
    THEN "onlyRemoteCommitShaChanged"
  ELSE IF Len(localChanges) = 0 /\ updated THEN "onlyRemoteChanged"
  ELSE IF Len(clashed) = 0 THEN "localAndRemoteChangesCompatible"
  ELSE "localAndRemoteChangesClashed"

performPreSyncChecks ==
  LET currentLocalSha == computeLocalShaOf(vault)
      localChanges == getLocalChanges(currentLocalSha)
      remoteCommitSha == remoteUpdated.remoteCommitSha
      updated == remoteUpdated.updated
      remoteTreeSha == getRemoteTreeSha(remoteCommitSha)
      remoteChanges == getRemoteChanges(remoteTreeSha)
      clashed == getClashedChanges(localChanges, remoteChanges)
      branch == PreSyncStatus(localChanges, updated, remoteChanges, clashed)
  IN IF branch = "inSync"
       THEN [NoPre EXCEPT !.status = "inSync",
                          !.reads = <<"computeLocalSha", "getRef">>]
       ELSE [status |-> branch,
             reads |-> <<"computeLocalSha", "getRef", "getTree">>,
             remoteChanges |-> remoteChanges,
             remoteTreeSha |-> remoteTreeSha,
             latestRemoteCommitSha |-> remoteCommitSha,
             clashedFiles |->
               IF branch \in {"localAndRemoteChangesCompatible",
                              "localAndRemoteChangesClashed"}
                 THEN clashed ELSE <<>>,
             localChanges |-> localChanges,
             localTreeSha |-> currentLocalSha]

\* ------------------------------------------------------------- push side
\* Fit.createTreeNodeFromFile: no node, or one node (sha = NoSha: deletion).
createTreeNodeFromFile(change, remoteTree, iv) ==
  IF change.status = "deleted"
    THEN IF Every(remoteTree, LAMBDA node : node.path # change.path)
           THEN <<>>
           ELSE <<[path |-> change.path, type |-> "blob", sha |-> NoSha]>>
    ELSE LET content == arrayBufferToBase64(vault[change.path])
             blobSha == encrypt(content, iv)
         IN IF Some(remoteTree,
                    LAMBDA node : node.path = change.path /\ node.sha = blobSha)
              THEN <<>>
              ELSE <<[path |-> change.path, type |-> "blob", sha |-> blobSha]>>

\* Mutant: the new tree is built from the nodes alone.
createTree_NoBase(treeNodes, base_tree) ==
  LET live == {i \in 1..Len(treeNodes) : treeNodes[i].sha # NoSha}
  IN [tok \in {encryptPath(treeNodes[i].path) : i \in live} |->
        treeNodes[CHOOSE i \in live : encryptPath(treeNodes[i].path) = tok].sha]

\* Fit.createTree: the base tree with every node's encrypted path set or removed.
createTree(treeNodes, base_tree) ==
  LET removed == {encryptPath(treeNodes[i].path) :
                    i \in {j \in 1..Len(treeNodes) : treeNodes[j].sha = NoSha}}
      written == {encryptPath(treeNodes[i].path) :
                    i \in {j \in 1..Len(treeNodes) : treeNodes[j].sha # NoSha}}
      ShaOf(tok) == treeNodes[CHOOSE i \in 1..Len(treeNodes) :
                                encryptPath(treeNodes[i].path) = tok].sha
  IN [tok \in (DOMAIN base_tree \ removed) \cup written |->
        IF tok \in written THEN ShaOf(tok) ELSE base_tree[tok]]

\* ------------------------------------------------------------- pull side
\* FitPull.prepareChangesToExecute: the local operations of a list of remote
\* changes (addToLocal as writes, deleteFromLocal as deletes).
prepareChangesToExecute(remoteChanges) ==
  {[kind |-> IF remoteChanges[i].status = "REMOVED" THEN "delete" ELSE "write",
    path |-> remoteChanges[i].path,
    content |-> IF remoteChanges[i].status = "REMOVED"
                  THEN NoSha.content ELSE getBlob(remoteChanges[i].currentSha)]
   : i \in 1..Len(remoteChanges)}

\* The blob reads of prepareChangesToExecute: one per remote change that is
\* not a removal.
BlobReads(remoteChanges) ==
  FlatMap(LAMBDA c : IF c.status = "REMOVED" THEN <<>> ELSE <<"getBlob">>,
          remoteChanges)

\* VaultOperations.writeToLocal
writeToLocal(v, path, content) ==
  [v EXCEPT ![path] = base64ToArrayBuffer(content)]

\* VaultOperations.deleteFromLocal (defined when the file exists)
deleteFromLocal(v, path) == [v EXCEPT ![path] = NoFile]

FileOpOf(v, op) ==
  [path |-> op.path,
   status |-> IF op.kind = "delete" THEN "deleted"
              ELSE IF v[op.path] = NoFile THEN "created" ELSE "changed"]

\* ------------------------------------------------------ conflict resolver
\* FitSync.resolveFileConflict on the current vault.  result: the
\* ConflictResolutionResult (fileOp as a list of at most one record);
\* awaited: the quarantine write it awaits; detached: the quarantine write
\* handleLocalDeletionConflict starts without awaiting it.
\* Mutant: a path gone on both sides is handled like any local deletion.
BothGone_Never(clash) == FALSE

\* The first test of resolveFileConflict (line 108).
BothGone(clash) ==
  clash.localStatus = "deleted" /\ clash.remoteStatus = "REMOVED"

\* reads: the blob fetches and local file reads it makes, in order.
resolveFileConflict(clash, remoteTreeSha) ==
  LET hasSha == clash.path \in DOMAIN remoteTreeSha
      latestRemoteFileSha == IF hasSha THEN remoteTreeSha[clash.path] ELSE NoSha
      conflictResolutionPath == QuarantinePath(clash.path)
      fileOp == [path |-> conflictResolutionPath, status |-> "created"]
  IN IF BothGone(clash)
       THEN [result |-> [path |-> clash.path, noDiff |-> TRUE, fileOp |-> <<>>],
             reads |-> <<>>, awaited |-> <<>>, detached |-> <<>>]
     ELSE IF clash.localStatus = "deleted"
       THEN [result |-> [path |-> clash.path, noDiff |-> FALSE,
                         fileOp |-> <<fileOp>>],
             reads |-> <<"getBlob">>,
             awaited |-> <<>>,
             detached |-> <<[path |-> conflictResolutionPath,
                             content |-> getBlob(latestRemoteFileSha)]>>]
     ELSE LET localFileContent == arrayBufferToBase64(vault[clash.path])
          IN IF hasSha
               THEN LET remoteContent == getBlob(latestRemoteFileSha)
                    IN IF removeLineEndingsFromBase64String(remoteContent)
                            # removeLineEndingsFromBase64String(localFileContent)
                         THEN [result |-> [path |-> clash.path, noDiff |-> FALSE,
                                           fileOp |-> <<fileOp>>],
                               reads |-> <<"readBinary", "getBlob">>,
                               awaited |-> <<[path |-> conflictResolutionPath,
                                              content |-> remoteContent]>>,
                               detached |-> <<>>]
                         ELSE [result |-> [path |-> clash.path, noDiff |-> TRUE,
                                           fileOp |-> <<>>],
                               reads |-> <<"readBinary", "getBlob">>,
                               awaited |-> <<>>, detached |-> <<>>]
               ELSE [result |-> [path |-> clash.path, noDiff |-> FALSE,
                                 fileOp |-> <<>>],
                     reads |-> <<"readBinary">>,
                     awaited |-> <<>>, detached |-> <<>>]

\* Mutant: one clash without difference is enough for noConflict.
resolveConflicts_AnyNoDiff(clashedFiles, fileResolutions) ==
  [noConflict |-> Some(fileResolutions, LAMBDA res : res.noDiff),
   unresolvedFiles |->
     FlatMap(LAMBDA i : IF ~fileResolutions[i].noDiff
                          THEN <<clashedFiles[i]>> ELSE <<>>,
             [i \in 1..Len(clashedFiles) |-> i]),
   fileOpsRecord |-> FlatMap(LAMBDA r : r.fileOp, fileResolutions)]

\* FitSync.resolveConflicts: the aggregate of the per-clash resolutions.
resolveConflicts(clashedFiles, fileResolutions) ==
  [noConflict |-> Every(fileResolutions, LAMBDA res : res.noDiff),
   unresolvedFiles |->
     FlatMap(LAMBDA i : IF ~fileResolutions[i].noDiff
                          THEN <<clashedFiles[i]>> ELSE <<>>,
             [i \in 1..Len(clashedFiles) |-> i]),
   fileOpsRecord |-> FlatMap(LAMBDA r : r.fileOp, fileResolutions)]

\* Mutant: the pull applies every remote change, clashing or not.
remoteChangesToWrite_All(noConflict, unresolvedFiles, localChanges, remoteChanges) ==
  remoteChanges

\* FitSync.syncWithConflicts, lines 202-214: what is pushed and what is pulled.
remoteChangesToWrite(noConflict, unresolvedFiles, localChanges, remoteChanges) ==
  IF noConflict
    THEN SelectSeq(remoteChanges,
                   LAMBDA c : ~Some(localChanges, LAMBDA l : l.path = c.path))
    ELSE SelectSeq(remoteChanges,
                   LAMBDA c : ~Some(unresolvedFiles, LAMBDA l : l.path = c.path))

\* Mutant: clashing local changes are withheld from the push in every case.
localChangesToPush_Withheld(noConflict, localChanges, remoteChanges) ==
  SelectSeq(localChanges,
            LAMBDA c : ~Some(remoteChanges, LAMBDA r : r.path = c.path))

localChangesToPush(noConflict, localChanges, remoteChanges) ==
  IF noConflict
    THEN SelectSeq(localChanges,
                   LAMBDA c : ~Some(remoteChanges, LAMBDA r : r.path = c.path))
    ELSE localChanges

\* -------------------------------------------------------------------- Init
EmptyTree == [t \in {} |-> NoSha]

\* The plugin right after construction: a fresh install against an empty
\* branch, or a store loaded from an earlier session that left both working
\* files in sync with the branch head.
SyncedTree == [t \in {encryptPath(p) : p \in Paths} |->
                 encrypt(arrayBufferToBase64("x"), 1)]

Init ==
  /\ \/ /\ vault = [p \in AllPaths |-> NoFile]
        /\ commits = <<[tree |-> EmptyTree, parent |-> NoCommit]>>
        /\ localSha = EmptyMap
        /\ lastFetchedCommitSha = NoCommit
        /\ lastFetchedRemoteSha = EmptyMap
     \/ /\ vault = [p \in AllPaths |-> IF p \in Paths THEN "x" ELSE NoFile]
        /\ commits = <<[tree |-> SyncedTree, parent |-> NoCommit]>>
        /\ localSha = computeLocalShaOf(vault)
        /\ lastFetchedCommitSha = 1
        /\ lastFetchedRemoteSha =
             [p \in Paths |-> encrypt(arrayBufferToBase64("x"), 1)]
  /\ ref = 1
  /\ pc = "idle"
  /\ pre = NoPre
  /\ loc = NoLoc
  /\ floating = {}
  /\ hist = NoHist

\* Commit objects that no later step reads are forgotten: only the head, the
\* parent of the running call and the commit it created are kept.
Pruned == [tree |-> EmptyTree, parent |-> NoCommit]
Prune(cs, keep) == [i \in 1..Len(cs) |-> IF i \in keep THEN cs[i] ELSE Pruned]

\* A commit that never became the head and is the newest object gives its id
\* back: nothing refers to it.
Forget(cs) ==
  IF loc.createdCommitSha = Len(cs) /\ ref # Len(cs)
    THEN SubSeq(cs, 1, Len(cs) - 1) ELSE cs

\* ------------------------------------------------------------- environment
\* The user edits or deletes a working file between two sync calls.
LocalWrite(p, c) ==
  /\ pc = "idle"
  /\ vault[p] # c
  /\ vault' = [vault EXCEPT ![p] = c]
  /\ pre' = NoPre /\ loc' = NoLoc /\ hist' = NoHist
  /\ UNCHANGED <<commits, ref, localSha, lastFetchedCommitSha,
                 lastFetchedRemoteSha, pc, floating>>

LocalDelete(p) ==
  /\ pc = "idle"
  /\ vault[p] # NoFile
  /\ vault' = [vault EXCEPT ![p] = NoFile]
  /\ pre' = NoPre /\ loc' = NoLoc /\ hist' = NoHist
  /\ UNCHANGED <<commits, ref, localSha, lastFetchedCommitSha,
                 lastFetchedRemoteSha, pc, floating>>

\* Another device (same key) commits on top of the head: every working path
\* is kept, written with a blob of that device, or removed.  Keeping every
\* path gives a commit with an unchanged tree.
ForeignTree(tree, change) ==
  LET Tok(p) == encryptPath(p)
      gone == {Tok(p) : p \in {q \in Paths : change[q] = "remove"}}
      set == {Tok(p) : p \in {q \in Paths : change[q] \in Contents}}
  IN [t \in (DOMAIN tree \ gone) \cup set |->
        IF t \in set
          THEN encrypt(arrayBufferToBase64(change[decryptPath(t)]), 1)
          ELSE tree[t]]

RemoteCommit(change) ==
  /\ pc = "idle"
  /\ Len(commits) < MaxCommits
  /\ \A p \in Paths :
       change[p] = "remove" => encryptPath(p) \in DOMAIN commits[ref].tree
  /\ commits' = Prune(Append(commits,
       [tree |-> ForeignTree(commits[ref].tree, change), parent |-> ref]),
       {Len(commits) + 1})
  /\ ref' = Len(commits) + 1
  /\ pre' = NoPre /\ loc' = NoLoc /\ hist' = NoHist
  /\ UNCHANGED <<vault, localSha, lastFetchedCommitSha, lastFetchedRemoteSha,
                 pc, floating>>

\* A party without the key commits files on top of the head: under a plain
\* path, or under a token of this key, with plain content (NoSha: the entry
\* is left as it is).
ForeignTokens ==
  {PlainPath, encryptPath(QuarantinePath(<<"a">>)), encryptPath(<<"a">>)}
ForeignBlobs == {PlainBlob(c) : c \in Contents}

PlainCommit(change) ==
  /\ pc = "idle"
  /\ Len(commits) < MaxCommits
  /\ LET tree == commits[ref].tree
         set == {tok \in ForeignTokens : change[tok] # NoSha}
         new == [t \in DOMAIN tree \cup set |->
                   IF t \in set THEN change[t] ELSE tree[t]]
     IN /\ new # tree
        /\ commits' = Prune(Append(commits, [tree |-> new, parent |-> ref]),
                            {Len(commits) + 1})
  /\ ref' = Len(commits) + 1
  /\ pre' = NoPre /\ loc' = NoLoc /\ hist' = NoHist
  /\ UNCHANGED <<vault, localSha, lastFetchedCommitSha, lastFetchedRemoteSha,
                 pc, floating>>

\* ------------------------------------------------------------------- sync
parentCommitSha == pre.latestRemoteCommitSha

\* The branches whose push is handed every local change: a call in one of
\* them starts only while a commit id is left (MaxCommits).
PushingStatuses == {"onlyLocalChanged", "localAndRemoteChangesCompatible"}

\* Mutant: the local operations of the pull are applied before the push.
NextPhase_PullFirst(pushDone, todo) ==
  IF todo # {} THEN "pull" ELSE IF ~pushDone THEN "push" ELSE "save"

\* The order of the combined branches (syncCompatibleChanges lines 162-188,
\* syncWithConflicts lines 215-239): push, then updateLocalFiles, then save.
NextPhase(pushDone, todo) ==
  IF ~pushDone THEN "push" ELSE IF todo # {} THEN "pull" ELSE "save"

BaseNow ==
  IF hist.outcome = "error" THEN hist.base
  ELSE [vault |-> vault,
        localChanges |-> getLocalChanges(computeLocalShaOf(vault)),
        remoteChanges |-> getRemoteChanges(getRemoteTreeSha(ref))]

\* FitSync.sync up to the dispatch on the status (lines 252-314); the reads of
\* prepareChangesToExecute that precede the push are taken with it.
StartSync ==
  /\ pc = "idle"
  /\ floating = {}
  /\ LET r == performPreSyncChecks
         h == [NoHist EXCEPT !.status = r.status, !.outcome = "running",
                             !.base = BaseNow, !.retry = (hist.outcome = "error"),
                             !.startVault = vault]
         todo == prepareChangesToExecute(r.remoteChanges)
     IN /\ r.status \in PushingStatuses => Len(commits) < MaxCommits
        /\ pre' = r
        /\ IF r.status = "inSync"
             THEN /\ pc' = "idle"
                  /\ loc' = NoLoc
                  /\ hist' = [h EXCEPT !.outcome = "ok"]
           ELSE IF r.status = "onlyRemoteCommitShaChanged"
             THEN pc' = "save" /\ loc' = NoLoc /\ hist' = h
           ELSE IF r.status = "onlyRemoteChanged"
             THEN /\ pc' = "pull"
                  /\ loc' = [NoLoc EXCEPT
                       !.pushDone = TRUE,
                       !.calls = BlobReads(r.remoteChanges),
                       !.todo = todo,
                       !.lastFetchedRemoteSha = r.remoteTreeSha,
                       !.lastFetchedCommitSha = r.latestRemoteCommitSha]
                  /\ hist' = h
           ELSE IF r.status = "onlyLocalChanged"
             THEN /\ pc' = "push"
                  /\ loc' = [NoLoc EXCEPT !.localChangesToPush = r.localChanges]
                  /\ hist' = h
           ELSE IF r.status = "localAndRemoteChangesCompatible"
             THEN /\ pc' = NextPhase(FALSE, todo)
                  /\ loc' = [NoLoc EXCEPT !.localChangesToPush = r.localChanges,
                                          !.calls = BlobReads(r.remoteChanges),
                                          !.todo = todo]
                  /\ hist' = h
           ELSE pc' = "resolve" /\ loc' = NoLoc /\ hist' = h
  /\ UNCHANGED <<vault, commits, ref, localSha, lastFetchedCommitSha,
                 lastFetchedRemoteSha, floating>>

\* A remote read of the pre-sync checks fails: the call ends with the error.
StartSyncFails(f) ==
  /\ pc = "idle"
  /\ floating = {}
  /\ pre' = NoPre /\ loc' = NoLoc
  /\ hist' = [NoHist EXCEPT !.outcome = "error", !.base = BaseNow,
                            !.remoteFailed = f.remoteFailed,
                            !.error = f.error]
  /\ UNCHANGED <<vault, commits, ref, localSha, lastFetchedCommitSha,
                 lastFetchedRemoteSha, pc, floating>>

\* FitSync.resolveConflicts: one clash of the fan-out; after the last one,
\* syncWithConflicts lines 200-219.
ResolveStep ==
  /\ pc = "resolve"
  /\ LET i == Len(loc.resolutions) + 1
         clash == pre.clashedFiles[i]
         r == resolveFileConflict(clash, pre.remoteTreeSha)
         fileResolutions == Append(loc.resolutions, r.result)
         agg == resolveConflicts(pre.clashedFiles, fileResolutions)
         toWrite == remoteChangesToWrite(agg.noConflict, agg.unresolvedFiles,
                                         pre.localChanges, pre.remoteChanges)
         todo == prepareChangesToExecute(toWrite)
         calls == loc.calls \o r.reads
                    \o [k \in 1..Len(r.awaited \o r.detached) |-> "writeToLocal"]
     IN /\ i <= Len(pre.clashedFiles)
        /\ clash.localStatus # "deleted" => vault[clash.path] # NoFile
        /\ vault' = IF r.awaited = <<>> THEN vault
                    ELSE writeToLocal(vault, r.awaited[1].path, r.awaited[1].content)
        /\ floating' = floating \cup Range(r.detached)
        /\ IF i < Len(pre.clashedFiles)
             THEN /\ loc' = [loc EXCEPT !.resolutions = fileResolutions,
                                         !.calls = calls]
                  /\ pc' = pc
             ELSE /\ loc' = [loc EXCEPT
                       !.calls = calls \o BlobReads(toWrite),
                       !.resolutions = fileResolutions,
                       !.unresolvedFiles = agg.unresolvedFiles,
                       !.fileOpsRecord = agg.fileOpsRecord,
                       !.localChangesToPush =
                          localChangesToPush(agg.noConflict, pre.localChanges,
                                             pre.remoteChanges),
                       !.todo = todo]
                  /\ pc' = NextPhase(FALSE, todo)
  /\ UNCHANGED <<commits, ref, localSha, lastFetchedCommitSha,
                 lastFetchedRemoteSha, pre, hist>>

\* FitPush.createCommitFromLocalUpdate (reached directly or through
\* pushChangedFilesToRemote): one blob upload per created or changed file, each
\* with its own IV, then the tree and the commit on top of the parent; no tree
\* node at all means nothing to push.
CreateCommitFromLocalUpdate ==
  /\ pc = "push"
  /\ ~loc.pushDone
  /\ LET lc == loc.localChangesToPush
     IN /\ \A i \in 1..Len(lc) :
             lc[i].status # "deleted" => vault[lc[i].path] # NoFile
        /\ \E ivs \in [1..Len(lc) -> Nonces] :
             LET remoteTree == getTree(parentCommitSha)
                 treeNodes == FlatMap(
                   LAMBDA i : createTreeNodeFromFile(lc[i], remoteTree, ivs[i]),
                   [i \in 1..Len(lc) |-> i])
                 createdTree ==
                   createTree(treeNodes, commits[parentCommitSha].tree)
                 uploads == IF lc = <<>> THEN <<>> ELSE <<"getTree">> \o
                   FlatMap(LAMBDA c : IF c.status = "deleted" THEN <<>>
                                      ELSE <<"createBlob">>, lc)
             IN IF treeNodes # <<>>
                  THEN /\ Len(commits) < MaxCommits
                       /\ commits' = Append(commits,
                            [tree |-> createdTree, parent |-> parentCommitSha])
                       /\ loc' = [loc EXCEPT
                            !.calls = @ \o uploads \o
                              <<"getCommitTreeSha", "createTree", "createCommit">>,
                            !.treeNodes = treeNodes,
                            !.createdTree = createdTree,
                            !.createdCommitSha = Len(commits) + 1]
                       /\ pc' = "ref"
                       /\ hist' = hist
                  ELSE /\ commits' = commits
                       /\ loc' = [loc EXCEPT
                            !.pushDone = TRUE,
                            !.calls = @ \o uploads,
                            !.lastFetchedCommitSha = pre.latestRemoteCommitSha,
                            !.lastFetchedRemoteSha = pre.remoteTreeSha]
                       /\ IF pre.status = "onlyLocalChanged"
                            THEN pc' = "idle" /\ hist' = [hist EXCEPT !.outcome = "ok"]
                            ELSE pc' = NextPhase(TRUE, loc.todo) /\ hist' = hist
  /\ UNCHANGED <<vault, ref, localSha, lastFetchedCommitSha,
                 lastFetchedRemoteSha, pre, floating>>

\* Mutant: the ref is moved only if it still is the commit of the pre-sync
\* check.
UpdateRef_CompareAndSwap ==
  /\ pc = "ref"
  /\ ref' = IF ref = pre.latestRemoteCommitSha THEN loc.createdCommitSha ELSE ref
  /\ pc' = "refetch"
  /\ loc' = [loc EXCEPT !.calls = Append(@, "updateRef")]
  /\ UNCHANGED <<vault, commits, localSha, lastFetchedCommitSha,
                 lastFetchedRemoteSha, pre, floating, hist>>

\* Fit.updateRef: the branch is set to the created commit.
UpdateRef ==
  /\ pc = "ref"
  /\ ref' = loc.createdCommitSha
  /\ pc' = "refetch"
  /\ loc' = [loc EXCEPT !.calls = Append(@, "updateRef")]
  /\ UNCHANGED <<vault, commits, localSha, lastFetchedCommitSha,
                 lastFetchedRemoteSha, pre, floating, hist>>

\* getRemoteTreeSha of the commit the ref update returned.
Refetch ==
  /\ pc = "refetch"
  /\ loc' = [loc EXCEPT
       !.pushDone = TRUE,
       !.calls = Append(@, "getTree"),
       !.lastFetchedCommitSha = loc.createdCommitSha,
       !.lastFetchedRemoteSha = getRemoteTreeSha(loc.createdCommitSha)]
  /\ pc' = NextPhase(TRUE, loc.todo)
  /\ UNCHANGED <<vault, commits, ref, localSha, lastFetchedCommitSha,
                 lastFetchedRemoteSha, pre, floating, hist>>

\* VaultOperations.updateLocalFiles: one of its writes or deletes.
PullStep(op) ==
  /\ pc = "pull"
  /\ op \in loc.todo
  /\ op.kind = "delete" => vault[op.path] # NoFile
  /\ vault' = IF op.kind = "delete" THEN deleteFromLocal(vault, op.path)
              ELSE writeToLocal(vault, op.path, op.content)
  /\ loc' = [loc EXCEPT
       !.calls = Append(@, IF op.kind = "delete" THEN "deleteFromLocal"
                           ELSE "writeToLocal"),
       !.todo = loc.todo \ {op},
       !.localFileOpsRecord = Append(loc.localFileOpsRecord, FileOpOf(vault, op))]
  /\ pc' = NextPhase(loc.pushDone, loc.todo \ {op})
  /\ UNCHANGED <<commits, ref, localSha, lastFetchedCommitSha,
                 lastFetchedRemoteSha, pre, floating, hist>>

\* Mutant: every branch saves the three parts of the snapshot.
Save_Full ==
  /\ pc = "save"
  /\ lastFetchedRemoteSha' = loc.lastFetchedRemoteSha
  /\ lastFetchedCommitSha' = pre.latestRemoteCommitSha
  /\ localSha' = computeLocalShaOf(vault)
  /\ pc' = "idle"
  /\ hist' = [hist EXCEPT !.saves = @ + 1, !.outcome = "ok"]
  /\ commits' = Prune(commits, {ref})
  /\ UNCHANGED <<vault, ref, pre, loc, floating>>

\* Mutant: the remote fingerprints saved are those of the pre-sync check.
Save_StaleTree ==
  /\ pc = "save"
  /\ IF pre.status = "onlyRemoteCommitShaChanged"
       THEN /\ lastFetchedCommitSha' = pre.latestRemoteCommitSha
            /\ UNCHANGED <<localSha, lastFetchedRemoteSha>>
       ELSE /\ lastFetchedRemoteSha' = pre.remoteTreeSha
            /\ lastFetchedCommitSha' = loc.lastFetchedCommitSha
            /\ localSha' = IF pre.status = "onlyLocalChanged"
                             THEN pre.localTreeSha
                             ELSE computeLocalShaOf(vault)
  /\ pc' = "idle"
  /\ hist' = [hist EXCEPT !.saves = @ + 1, !.outcome = "ok"]
  /\ commits' = Prune(commits, {ref})
  /\ UNCHANGED <<vault, ref, pre, loc, floating>>

\* saveLocalStoreCallback with the data of the call's branch.
Save ==
  /\ pc = "save"
  /\ IF pre.status = "onlyRemoteCommitShaChanged"
       THEN /\ lastFetchedCommitSha' = pre.latestRemoteCommitSha
            /\ UNCHANGED <<localSha, lastFetchedRemoteSha>>
       ELSE /\ lastFetchedRemoteSha' = loc.lastFetchedRemoteSha
            /\ lastFetchedCommitSha' = loc.lastFetchedCommitSha
            /\ localSha' = IF pre.status = "onlyLocalChanged"
                             THEN pre.localTreeSha
                             ELSE computeLocalShaOf(vault)
  /\ pc' = "idle"
  /\ hist' = [hist EXCEPT !.saves = @ + 1, !.outcome = "ok"]
  /\ commits' = Prune(commits, {ref})
  /\ UNCHANGED <<vault, ref, pre, loc, floating>>

\* The remote call or file operation of the current step fails: the error
\* propagates out of sync.
Fail(f) ==
  /\ pc # "idle"
  /\ pc' = "idle"
  /\ hist' = [NoHist EXCEPT !.outcome = "error", !.base = hist.base,
                            !.remoteFailed = f.remoteFailed,
                            !.error = f.error]
  /\ pre' = NoPre /\ loc' = NoLoc
  /\ commits' = Prune(Forget(commits), {ref})
  /\ UNCHANGED <<vault, ref, localSha, lastFetchedCommitSha,
                 lastFetchedRemoteSha, floating>>

\* A write started without await settles: it lands, or it fails unobserved.
FloatingWriteLands(w) ==
  /\ w \in floating
  /\ floating' = floating \ {w}
  /\ vault' = writeToLocal(vault, w.path, w.content)
  /\ UNCHANGED <<commits, ref, localSha, lastFetchedCommitSha,
                 lastFetchedRemoteSha, pc, pre, loc, hist>>

FloatingWriteFails(w) ==
  /\ w \in floating
  /\ floating' = floating \ {w}
  /\ hist' = IF pc # "idle" THEN [hist EXCEPT !.opFailed = TRUE]
             ELSE [hist EXCEPT !.lateFailure = TRUE]
  /\ UNCHANGED <<vault, commits, ref, localSha, lastFetchedCommitSha,
                 lastFetchedRemoteSha, pc, pre, loc>>

Next ==
  \/ \E p \in Paths, c \in Contents : LocalWrite(p, c)
  \/ \E p \in Paths : LocalDelete(p)
  \/ \E change \in [Paths -> Contents \cup {"keep", "remove"}] : RemoteCommit(change)
  \/ StartSync
  \/ \E f \in FailuresAt("idle") : StartSyncFails(f)
  \/ ResolveStep
  \/ CreateCommitFromLocalUpdate
  \/ UpdateRef
  \/ Refetch
  \/ \E op \in loc.todo : PullStep(op)
  \/ Save
  \/ \E f \in FailuresAt(pc) : Fail(f)
  \/ \E w \in floating : FloatingWriteLands(w)
  \/ \E w \in floating : FloatingWriteFails(w)

Spec == Init /\ [][Next]_vars

\* ------------------------------------------------- edits during a sync call
\* The user keeps working in the vault while a sync call is running.
LocalWriteDuringSync(p, c) ==
  /\ pc # "idle"
  /\ hist.edits < MaxConcurrentEdits
  /\ vault[p] # c
  /\ vault' = [vault EXCEPT ![p] = c]
  /\ hist' = [hist EXCEPT !.edits = @ + 1,
                          !.edited = [path |-> p, content |-> c]]
  /\ UNCHANGED <<commits, ref, localSha, lastFetchedCommitSha,
                 lastFetchedRemoteSha, pc, pre, loc, floating>>

LocalDeleteDuringSync(p) ==
  /\ pc # "idle"
  /\ hist.edits < MaxConcurrentEdits
  /\ vault[p] # NoFile
  /\ vault' = [vault EXCEPT ![p] = NoFile]
  /\ hist' = [hist EXCEPT !.edits = @ + 1,
                          !.edited = [path |-> p, content |-> NoFile]]
  /\ UNCHANGED <<commits, ref, localSha, lastFetchedCommitSha,
                 lastFetchedRemoteSha, pc, pre, loc, floating>>

\* Calls in which no remote call and no file operation fails, with the user's
\* edits interleaved.
NextEdit ==
  \/ \E p \in Paths, c \in Contents : LocalWrite(p, c)
  \/ \E p \in Paths : LocalDelete(p)
  \/ \E change \in [Paths -> Contents \cup {"keep", "remove"}] : RemoteCommit(change)
  \/ StartSync
  \/ ResolveStep
  \/ CreateCommitFromLocalUpdate
  \/ UpdateRef
  \/ Refetch
  \/ \E op \in loc.todo : PullStep(op)
  \/ Save
  \/ \E w \in floating : FloatingWriteLands(w)
  \/ \E p \in Paths, c \in Contents : LocalWriteDuringSync(p, c)
  \/ \E p \in Paths : LocalDeleteDuringSync(p)

SpecEdit == Init /\ [][NextEdit]_vars

\* Calls in which nothing fails, on a repository that parties without the key
\* commit to.
NextForeign ==
  \/ \E p \in Paths, c \in Contents : LocalWrite(p, c)
  \/ \E p \in Paths : LocalDelete(p)
  \/ \E change \in [ForeignTokens -> ForeignBlobs \cup {NoSha}] :
       PlainCommit(change)
  \/ StartSync
  \/ ResolveStep
  \/ CreateCommitFromLocalUpdate
  \/ UpdateRef
  \/ Refetch
  \/ \E op \in loc.todo : PullStep(op)
  \/ Save
  \/ \E w \in floating : FloatingWriteLands(w)

SpecForeign == Init /\ [][NextForeign]_vars

\* ------------------------------------------- another writer during a call
\* Another device commits on top of the head after the pre-sync check of the
\* running call read the ref and before the call updates it.  A commit id is
\* left for the commit the call still has to create.
RemoteCommitDuringSync(change) ==
  /\ pc \in {"resolve", "push", "ref"}
  /\ Len(commits) + (IF pc = "ref" THEN 0 ELSE 1) < MaxCommits
  /\ \A p \in Paths :
       change[p] = "remove" => encryptPath(p) \in DOMAIN commits[ref].tree
  /\ commits' = Prune(Append(commits,
       [tree |-> ForeignTree(commits[ref].tree, change), parent |-> ref]),
       {Len(commits) + 1, pre.latestRemoteCommitSha, loc.createdCommitSha})
  /\ ref' = Len(commits) + 1
  /\ UNCHANGED <<vault, localSha, lastFetchedCommitSha, lastFetchedRemoteSha,
                 pc, pre, loc, floating, hist>>

\* Calls in which nothing fails, on a branch another device pushes to while
\* a call is running.
NextRace ==
  \/ \E p \in Paths, c \in Contents : LocalWrite(p, c)
  \/ \E p \in Paths : LocalDelete(p)
  \/ \E change \in [Paths -> Contents \cup {"keep", "remove"}] : RemoteCommit(change)
  \/ StartSync
  \/ ResolveStep
  \/ CreateCommitFromLocalUpdate
  \/ UpdateRef
  \/ Refetch
  \/ \E op \in loc.todo : PullStep(op)
  \/ Save
  \/ \E w \in floating : FloatingWriteLands(w)
  \/ \E change \in [Paths -> Contents \cup {"keep", "remove"}] :
       RemoteCommitDuringSync(change)

SpecRace == Init /\ [][NextRace]_vars

\* ------------------------------------------------------------ observations
Finished == pc = "idle" /\ hist.outcome = "ok"

\* The remote fingerprint map of the branch head, and the content behind it.
HeadSha == getRemoteTreeSha(ref)
RemoteContent(p) == base64ToArrayBuffer(getBlob(HeadSha[p]))

Converged ==
  \A p \in Paths :
    /\ vault[p] # NoFile <=> p \in DOMAIN HeadSha
    /\ p \in DOMAIN HeadSha => vault[p] = RemoteContent(p)

C2_SaveOnceAfterAllWrites ==
  [][(hist.outcome = "running" /\ hist'.outcome = "ok") =>
       (pc = "save" /\ hist'.saves = 1 /\ floating = {})]_vars

\* C3: once an operation started by the call has failed, or the call has ended
\* with an error, the call has not invoked the persistence callback.
C3_NoSaveAfterFailure ==
  (hist.opFailed \/ hist.outcome = "error") => hist.saves = 0

\* ---------------------------------------------------------------------- C4
\* C4: a call that ran undisturbed and ended without error leaves a state in
\* which performPreSyncChecks returns inSync.
C4_Idempotent ==
  (Finished /\ hist.edits = 0) => performPreSyncChecks.status = "inSync"

\* ---------------------------------------------------------------------- C5
Combined == {"localAndRemoteChangesCompatible", "localAndRemoteChangesClashed"}

Differs(current, stored, p) ==
  \/ (p \in DOMAIN current) # (p \in DOMAIN stored)
  \/ p \in DOMAIN current /\ p \in DOMAIN stored /\ current[p] # stored[p]

LocalChangedAt(p) == Differs(computeLocalShaOf(vault), localSha, p)
RemoteChangedAt(p) == Differs(HeadSha, lastFetchedRemoteSha, p)
L == \E p \in Paths : LocalChangedAt(p)
U == ref # lastFetchedCommitSha
R == \E p \in Paths : RemoteChangedAt(p)
X == \E p \in Paths : LocalChangedAt(p) /\ RemoteChangedAt(p)

StatusTable ==
  IF ~L /\ ~U THEN "inSync"
  ELSE IF L /\ ~U THEN "onlyLocalChanged"
  ELSE IF ~L /\ ~R THEN "onlyRemoteCommitShaChanged"
  ELSE IF ~L THEN "onlyRemoteChanged"
  ELSE IF X THEN "localAndRemoteChangesClashed"
  ELSE "localAndRemoteChangesCompatible"

\* C5: in every state the status performPreSyncChecks returns is the one the
\* table over L, U, R and X gives, and a running call is in the branch the
\* table gave when it started.
C5_StatusTable ==
  /\ performPreSyncChecks.status = StatusTable
  /\ hist.outcome = "running" => pre.status = hist.status

C5_Witness ==
  /\ pc = "push"
  /\ pre.status = "localAndRemoteChangesCompatible"
  /\ pre.remoteChanges = <<>>
  /\ L /\ U /\ ~R

\* ---------------------------------------------------------------------- C6
\* C6: in the combined branches, while the push is still to commit or the ref
\* is still to be updated no remote change has been applied locally, and once
\* one has been applied the ref points at the commit the push created.
C6_PushBeforePull ==
  (hist.outcome = "running" /\ pre.status \in Combined) =>
     /\ pc \in {"push", "ref", "refetch"} => loc.localFileOpsRecord = <<>>
     /\ loc.localFileOpsRecord # <<>> =>
          /\ loc.pushDone
          /\ loc.createdCommitSha # NoCommit => ref = loc.createdCommitSha

C6_Witness ==
  /\ pc = "save"
  /\ pre.status \in Combined
  /\ loc.createdCommitSha # NoCommit
  /\ loc.localFileOpsRecord # <<>>

\* ------------------------------------------------------------------ C7, C8
Quarantined(p) == <<"_fit">> \o p
ClashIndexes == 1..Len(pre.clashedFiles)

\* C7: a step of the conflict resolver on the clash of path p changes no file
\* but _fit/p, which it writes; the writes it leaves running target _fit/p;
\* while the resolver runs no file is deleted and no working file changes.
C7_ResolverWritesOnlyQuarantine ==
  [][pc = "resolve" =>
       /\ \A q \in AllPaths :
            vault'[q] # vault[q] =>
              /\ vault'[q] # NoFile
              /\ \E i \in ClashIndexes : q = Quarantined(pre.clashedFiles[i].path)
       /\ loc'.resolutions # loc.resolutions =>
            LET p == pre.clashedFiles[Len(loc.resolutions) + 1].path
            IN /\ \A q \in AllPaths : vault'[q] # vault[q] => q = Quarantined(p)
               /\ \A w \in floating' \ floating : w.path = Quarantined(p)]_vars

C7_Witness ==
  /\ pc = "push"
  /\ pre.status = "localAndRemoteChangesClashed"
  /\ \E i \in ClashIndexes :
       LET q == Quarantined(pre.clashedFiles[i].path)
       IN vault[q] # NoFile /\ vault[q] # hist.startVault[q]
  /\ floating # {}

\* The clash on a path whose local file exists and differs from the remote one.
DiffersFromRemote(i) ==
  LET p == pre.clashedFiles[i].path
  IN /\ hist.startVault[p] # NoFile
     /\ p \in DOMAIN pre.remoteTreeSha
     /\ base64ToArrayBuffer(getBlob(pre.remoteTreeSha[p])) # hist.startVault[p]

\* C8: after a call with a clash on a path whose local file exists and differs
\* from the remote content, that clash is resolved with noDiff = false, _fit/p
\* holds the remote content, p is in the returned clash list, no operation of
\* the pull touched p, and the file at p is as it was when the call started.
C8_DifferingClashQuarantined ==
  (Finished /\ hist.status = "localAndRemoteChangesClashed") =>
    \A i \in ClashIndexes :
      DiffersFromRemote(i) =>
        LET p == pre.clashedFiles[i].path
        IN /\ ~loc.resolutions[i].noDiff
           /\ vault[Quarantined(p)] =
                base64ToArrayBuffer(getBlob(pre.remoteTreeSha[p]))
           /\ Some(loc.unresolvedFiles, LAMBDA c : c.path = p)
           /\ ~Some(loc.localFileOpsRecord, LAMBDA op : op.path = p)
           /\ vault[p] = hist.startVault[p]

C8_Witness ==
  /\ Finished
  /\ hist.status = "localAndRemoteChangesClashed"
  /\ \E i \in ClashIndexes : DiffersFromRemote(i)
  /\ loc.localFileOpsRecord # <<>>

\* ---------------------------------------------------------------------- C9
\* C9: in a clashed call, once the resolver is done, a clashed path resolved
\* with noDiff = true has no quarantine write, is not among the local changes
\* handed to the push, and is not among the remote changes the pull applies.
C9_NoDiffExcluded ==
  (pre.status = "localAndRemoteChangesClashed" /\ pc \in {"push", "pull"}) =>
    \A i \in ClashIndexes :
      loc.resolutions[i].noDiff =>
        LET p == pre.clashedFiles[i].path
        IN /\ ~Some(loc.fileOpsRecord, LAMBDA op : op.path = Quarantined(p))
           /\ vault[Quarantined(p)] = hist.startVault[Quarantined(p)]
           /\ ~Some(loc.localChangesToPush, LAMBDA c : c.path = p)
           /\ \A op \in loc.todo : op.path # p
           /\ ~Some(loc.localFileOpsRecord, LAMBDA op : op.path = p)

\* --------------------------------------------------------------------- C10
\* The content a change brought, NoFile for a removal.
LocalChangeContent(c) ==
  IF c.status = "deleted" THEN NoFile ELSE hist.base.vault[c.path]
RemoteChangeContent(c) ==
  IF c.status = "REMOVED" THEN NoFile
  ELSE base64ToArrayBuffer(getBlob(c.currentSha))

\* Content is kept when it is the working file, the head's blob or the
\* quarantined file of its path.
Kept(p, content) ==
  \/ vault[p] = content
  \/ vault[Quarantined(p)] = content
  \/ p \in DOMAIN HeadSha /\ RemoteContent(p) = content

NoContentLost ==
  /\ \A i \in 1..Len(hist.base.localChanges) :
       LET c == hist.base.localChanges[i]
       IN c.status # "deleted" => Kept(c.path, LocalChangeContent(c))
  /\ \A i \in 1..Len(hist.base.remoteChanges) :
       LET c == hist.base.remoteChanges[i]
       IN c.status # "REMOVED" => Kept(c.path, RemoteChangeContent(c))

\* C10: a call that directly follows failed calls, ends without error and has
\* none of its own operations pending or failed has kept the content of every
\* change either side had made when the first of the failed calls started, and
\* leaves a state the pre-sync checks call inSync.
C10_RetryAfterFailure ==
  (Finished /\ hist.retry /\ floating = {}
     /\ ~hist.opFailed /\ ~hist.lateFailure) =>
     /\ NoContentLost
     /\ performPreSyncChecks.status = "inSync"

\* --------------------------------------------------------------------- C11
RemoteMutations == {"createBlob", "createTree", "createCommit", "updateRef"}
MutationsOf(calls) == SelectSeq(calls, LAMBDA c : c \in RemoteMutations)

\* An onlyLocalChanged call whose changes are all creations or modifications.
PushOnlyCall ==
  /\ pre.status = "onlyLocalChanged"
  /\ pre.localChanges # <<>>
  /\ \A i \in 1..Len(pre.localChanges) : pre.localChanges[i].status # "deleted"

\* C11: an onlyLocalChanged call with n created or changed files has, when it
\* comes to save, made n blob creations, then one tree creation, one commit
\* creation and one ref update; the tree is the previous remote tree with the n
\* paths set to blobs of the local contents, the commit's parent is the commit
\* id of the pre-sync check, the ref is at the commit; after the save, the
\* snapshot maps each pushed path to the fingerprint of its local content.
C11_PushOnly ==
  /\ (pc = "save" /\ PushOnlyCall) =>
       LET n == Len(pre.localChanges)
           base == commits[pre.latestRemoteCommitSha].tree
           new == commits[loc.createdCommitSha].tree
           pushed == {encryptPath(pre.localChanges[i].path) : i \in 1..n}
       IN /\ MutationsOf(loc.calls) =
               [i \in 1..n |-> "createBlob"]
                 \o <<"createTree", "createCommit", "updateRef">>
          /\ DOMAIN new = DOMAIN base \cup pushed
          /\ \A tok \in DOMAIN base \ pushed : new[tok] = base[tok]
          /\ \A i \in 1..n :
               LET p == pre.localChanges[i].path
               IN base64ToArrayBuffer(decrypt(new[encryptPath(p)])) = vault[p]
          /\ commits[loc.createdCommitSha].parent = pre.latestRemoteCommitSha
          /\ pre.latestRemoteCommitSha = lastFetchedCommitSha
          /\ ref = loc.createdCommitSha
  /\ (Finished /\ PushOnlyCall) =>
       /\ hist.saves = 1
       /\ lastFetchedCommitSha = ref
       /\ \A i \in 1..Len(pre.localChanges) :
            LET p == pre.localChanges[i].path
            IN p \in DOMAIN localSha /\ localSha[p] = computeFileLocalSha(p, vault)

C11_Witness ==
  /\ Finished
  /\ PushOnlyCall
  /\ Len(pre.localChanges) = 2
  /\ DOMAIN commits[ref].tree = {encryptPath(p) : p \in Paths}

\* --------------------------------------------------------------------- C12
\* The local fingerprints equal the snapshot's and the branch head is the
\* snapshot's commit.
NothingChanged ==
  /\ computeLocalShaOf(vault) = localSha
  /\ ref = lastFetchedCommitSha

\* A step that is the start of a sync call that does not fail.
SyncCalled ==
  /\ pc = "idle"
  /\ floating = {}
  /\ pre'.reads # <<>>
  /\ hist'.outcome \in {"ok", "running"}

\* C12: a sync call made when nothing changed on either side returns inSync
\* after reading only the local fingerprints and the remote ref: no tree or
\* blob is fetched, nothing is created on the remote, no local file is written
\* or deleted, no write is started, and the snapshot is not saved.
C12_InSyncFrame ==
  [][(SyncCalled /\ NothingChanged) =>
       /\ hist'.status = "inSync"
       /\ hist'.outcome = "ok"
       /\ pc' = "idle"
       /\ pre'.reads = <<"computeLocalSha", "getRef">>
       /\ loc'.calls = <<>>
       /\ hist'.saves = 0
       /\ UNCHANGED <<vault, commits, ref, localSha, lastFetchedCommitSha,
                      lastFetchedRemoteSha, floating>>]_vars

C12_Witness ==
  /\ Finished
  /\ hist.status = "inSync"
  /\ NothingChanged
  /\ pre.reads = <<"computeLocalSha", "getRef">>
  /\ hist.saves = 0
  /\ lastFetchedCommitSha # NoCommit
  /\ \E p \in Paths : vault[p] # NoFile

\* --------------------------------------------------------------------- C19
\* The clash the resolver handles next is deleted locally and REMOVED remotely.
NextClashBothGone ==
  /\ pc = "resolve"
  /\ Len(loc.resolutions) < Len(pre.clashedFiles)
  /\ LET clash == pre.clashedFiles[Len(loc.resolutions) + 1]
     IN clash.localStatus = "deleted" /\ clash.remoteStatus = "REMOVED"

\* C19: resolving a clash that is deleted locally and REMOVED remotely yields
\* noDiff = true with no FileOpRecord, and the step fetches no blob for it,
\* reads no local file, writes no file and starts no write (the only calls
\* logged by the step are the blob fetches of the pull that is prepared once
\* the last clash is resolved).
C19_BothGoneNoDiff ==
  [][(NextClashBothGone /\ Len(loc'.resolutions) = Len(loc.resolutions) + 1) =>
       LET i == Len(loc.resolutions) + 1
           p == pre.clashedFiles[i].path
           added == SubSeq(loc'.calls, Len(loc.calls) + 1, Len(loc'.calls))
       IN /\ loc'.resolutions =
               Append(loc.resolutions,
                      [path |-> p, noDiff |-> TRUE, fileOp |-> <<>>])
          /\ vault' = vault
          /\ floating' = floating
          /\ SubSeq(loc'.calls, 1, Len(loc.calls)) = loc.calls
          /\ i < Len(pre.clashedFiles) => added = <<>>
          /\ i = Len(pre.clashedFiles) =>
               /\ \A k \in 1..Len(added) : added[k] = "getBlob"
               /\ Len(added) = Cardinality({op \in loc'.todo : op.kind = "write"})
               /\ ~Some(loc'.fileOpsRecord, LAMBDA op : op.path = Quarantined(p))]_vars

C19_Witness ==
  /\ Finished
  /\ hist.status = "localAndRemoteChangesClashed"
  /\ \E i \in ClashIndexes :
       /\ pre.clashedFiles[i].localStatus = "deleted"
       /\ pre.clashedFiles[i].remoteStatus = "REMOVED"
       /\ loc.resolutions[i].noDiff
       /\ vault[Quarantined(pre.clashedFiles[i].path)] = NoFile

\* --------------------------------------------------------------------- C17
Reverse(s) == [i \in 1..Len(s) |-> s[Len(s) + 1 - i]]

\* The change lists a pre-sync check would compute in the current state.
LocalChangesNow == getLocalChanges(computeLocalShaOf(vault))
RemoteChangesNow == getRemoteChanges(HeadSha)

\* clashes has one entry for each path of both lists, with both statuses, and
\* no other entry.
ClashesExactly(clashes, localChanges, remoteChanges) ==
  /\ \A p \in AllPaths :
       LET li == {i \in 1..Len(localChanges) : localChanges[i].path = p}
           ri == {i \in 1..Len(remoteChanges) : remoteChanges[i].path = p}
           ci == {i \in 1..Len(clashes) : clashes[i].path = p}
       IN IF li # {} /\ ri # {}
            THEN /\ Cardinality(ci) = 1
                 /\ \A i \in ci :
                      /\ \E j \in li : clashes[i].localStatus = localChanges[j].status
                      /\ \E j \in ri : clashes[i].remoteStatus = remoteChanges[j].status
            ELSE ci = {}
  /\ \A i \in 1..Len(clashes) : clashes[i].path \in AllPaths

\* C17: on the change lists of any reachable state, in either order,
\* getClashedChanges has exactly one entry for each path that is in both
\* lists, carrying the status of its local and of its remote change, and none
\* for any other path; the set of entries is the same for every order.
C17_ClashesIntersection ==
  LET lc == LocalChangesNow
      rc == RemoteChangesNow
  IN /\ \A l \in {lc, Reverse(lc)} : \A r \in {rc, Reverse(rc)} :
          /\ ClashesExactly(getClashedChanges(l, r), l, r)
          /\ Range(getClashedChanges(l, r)) = Range(getClashedChanges(lc, rc))
     /\ pre.status \in {"localAndRemoteChangesCompatible",
                        "localAndRemoteChangesClashed"} =>
          ClashesExactly(pre.clashedFiles, pre.localChanges, pre.remoteChanges)

C17_Witness ==
  /\ pc = "resolve"
  /\ Len(pre.localChanges) = 2
  /\ Len(pre.remoteChanges) = 1
  /\ pre.remoteChanges[1].path = pre.localChanges[2].path
  /\ pre.clashedFiles =
       <<[path |-> pre.localChanges[2].path,
          localStatus |-> pre.localChanges[2].status,
          remoteStatus |-> pre.remoteChanges[1].status]>>

\* --------------------------------------------------------------------- C18
\* changes lists each path that differs between current and previous exactly
\* once, with the kind of its difference, and no path that does not differ.
DiffPartition(changes, current, previous, created, deleted, changed) ==
  /\ \A i \in 1..Len(changes) : changes[i].path \in AllPaths
  /\ \A p \in AllPaths :
       LET at == {i \in 1..Len(changes) : changes[i].path = p}
           kind == IF p \in DOMAIN current /\ p \notin DOMAIN previous THEN created
                   ELSE IF p \notin DOMAIN current /\ p \in DOMAIN previous
                     THEN deleted
                   ELSE IF /\ p \in DOMAIN current /\ p \in DOMAIN previous
                           /\ current[p] # previous[p] THEN changed
                   ELSE "none"
       IN IF kind = "none" THEN at = {}
          ELSE Cardinality(at) = 1 /\ \A i \in at : changes[i].status = kind

\* C18: on the fingerprint maps of every reachable state, the local and the
\* remote change list hold each path exactly once when it is only in the
\* current map (created / ADDED), only in the previous one (deleted /
\* REMOVED) or in both with different fingerprints (changed / MODIFIED), and
\* no other path; the same holds with the two maps exchanged; a map diffed
\* against itself gives the empty list.
C18_DiffPartition ==
  LET cl == computeLocalShaOf(vault)
      cr == HeadSha
  IN /\ DiffPartition(getLocalChanges(cl), cl, localSha,
                      "created", "deleted", "changed")
     /\ DiffPartition(getRemoteChanges(cr), cr, lastFetchedRemoteSha,
                      "ADDED", "REMOVED", "MODIFIED")
     /\ DiffPartition(compareSha(localSha, cl, "local"), localSha, cl,
                      "created", "deleted", "changed")
     /\ DiffPartition(compareSha(lastFetchedRemoteSha, cr, "remote"),
                      lastFetchedRemoteSha, cr, "ADDED", "REMOVED", "MODIFIED")
     /\ getLocalChanges(localSha) = <<>>
     /\ getRemoteChanges(lastFetchedRemoteSha) = <<>>
     /\ compareSha(cl, cl, "local") = <<>>
     /\ compareSha(cr, cr, "remote") = <<>>

C18_Witness ==
  /\ Len(LocalChangesNow) = 2
  /\ LocalChangesNow[1].status = "deleted"
  /\ LocalChangesNow[2].status = "changed"
  /\ Len(RemoteChangesNow) = 1
  /\ RemoteChangesNow[1].status = "MODIFIED"
  /\ localSha # EmptyMap

C15_TypedRemoteErrors ==
  (hist.outcome = "error" /\ hist.remoteFailed) =>
    /\ hist.error.class = "OctokitHttpError"
    /\ hist.error.source \in RemoteOps

\* --------------------------------------------------------------------- C13
\* C13: a node of the head tree whose path cannot be decrypted is absent from
\* the tree getTree returns, from the remote fingerprint map (computed and
\* saved) and from the remote changes of a call, while every node whose path
\* decrypts is returned with its decrypted path.
C13_UndecryptableNodeDropped ==
  \A tok \in DOMAIN commits[ref].tree :
    IF CanDecryptPath(tok)
      THEN \E k \in 1..Len(getTree(ref)) :
             /\ getTree(ref)[k].path = decryptPath(tok)
             /\ getTree(ref)[k].sha = commits[ref].tree[tok]
      ELSE /\ \A k \in 1..Len(getTree(ref)) : getTree(ref)[k].path # tok
           /\ tok \notin DOMAIN HeadSha
           /\ tok \notin DOMAIN lastFetchedRemoteSha
           /\ ~Some(pre.remoteChanges, LAMBDA c : c.path = tok)

\* --------------------------------------------------------------------- C14
\* The remote changes of the call that bring a blob that cannot be decrypted.
UndecryptableChanges ==
  {i \in 1..Len(pre.remoteChanges) :
     /\ pre.remoteChanges[i].status # "REMOVED"
     /\ ~CanDecrypt(pre.remoteChanges[i].currentSha)}

\* C14: getBlob of a blob that cannot be decrypted is the blob's content as
\* fetched; a call that met such a blob in a remote change completes, and has
\* written the fetched bytes to the path (pull, or clash without difference),
\* or to _fit/path when the path is an unresolved clash (the write may still
\* be running when the local file was deleted).
C14_RawFallback ==
  /\ \A tok \in DOMAIN commits[ref].tree :
       LET blob == commits[ref].tree[tok]
       IN ~CanDecrypt(blob) => getBlob(blob) = blob.content
  /\ Finished =>
       \A i \in UndecryptableChanges :
         LET p == pre.remoteChanges[i].path
             raw == pre.remoteChanges[i].currentSha.content
             bytes == base64ToArrayBuffer(raw)
         IN IF Some(loc.unresolvedFiles, LAMBDA f : f.path = p)
              THEN \/ vault[Quarantined(p)] = bytes
                   \/ \E w \in floating :
                        w.path = Quarantined(p) /\ w.content = raw
              ELSE vault[p] = bytes

C14_Witness ==
  /\ Finished
  /\ \E i \in UndecryptableChanges :
       LET p == pre.remoteChanges[i].path
           bytes == base64ToArrayBuffer(pre.remoteChanges[i].currentSha.content)
       IN /\ ~Some(loc.unresolvedFiles, LAMBDA f : f.path = p)
          /\ hist.startVault[p] # bytes
          /\ vault[p] = bytes
          /\ Some(loc.localFileOpsRecord, LAMBDA op : op.path = p)
  /\ \E i \in UndecryptableChanges :
       LET p == pre.remoteChanges[i].path
       IN /\ Some(loc.unresolvedFiles, LAMBDA f : f.path = p)
          /\ vault[Quarantined(p)] =
               base64ToArrayBuffer(pre.remoteChanges[i].currentSha.content)

\* --------------------------------------------------------------------- C16
UnderFit(path) == Len(path) > 1 /\ path[1] = "_fit"
NoFitKey(map) == \A k \in DOMAIN map : ~UnderFit(k)
NoFitChange(changes) == \A i \in 1..Len(changes) : ~UnderFit(changes[i].path)

\* C16: no fingerprint map has a key under _fit/ (the local and the remote
\* one as computed in any state, those of a running call and the saved ones),
\* no local or remote change is on a path under _fit/, and no tree node of a
\* push is for such a path.
C16_QuarantineNeverTracked ==
  /\ NoFitKey(computeLocalShaOf(vault))
  /\ NoFitKey(HeadSha)
  /\ NoFitKey(localSha)
  /\ NoFitKey(lastFetchedRemoteSha)
  /\ NoFitKey(pre.localTreeSha)
  /\ NoFitKey(pre.remoteTreeSha)
  /\ NoFitKey(loc.lastFetchedRemoteSha)
  /\ NoFitChange(LocalChangesNow)
  /\ NoFitChange(RemoteChangesNow)
  /\ NoFitChange(pre.localChanges)
  /\ NoFitChange(pre.remoteChanges)
  /\ NoFitChange(loc.localChangesToPush)
  /\ NoFitChange(loc.treeNodes)
  /\ \A op \in loc.todo : ~UnderFit(op.path)

C16_Witness ==
  /\ Finished
  /\ hist.saves = 1
  /\ \E p \in Paths : vault[Quarantined(p)] # NoFile
  /\ \E tok \in DOMAIN commits[ref].tree :
       CanDecryptPath(tok) /\ UnderFit(decryptPath(tok))
  /\ localSha # EmptyMap
  /\ lastFetchedRemoteSha # EmptyMap

\* --------------------------------------------------------------------- C29
\* Every clash of the call has its resolution.
ResolverDone ==
  /\ pre.status = "localAndRemoteChangesClashed"
  /\ Len(loc.resolutions) = Len(pre.clashedFiles)

\* C29: once every clash is resolved, noConflict holds exactly when every
\* resolution has noDiff = true, unresolvedFiles is the list of the clashes
\* with noDiff = false in the order of the input, fileOpsRecord is the list of
\* the FileOpRecords of the resolutions, and unresolvedFiles is empty exactly
\* when noConflict holds; the call carries on with this aggregate.
C29_ResolveConflictsAggregate ==
  ResolverDone =>
    LET agg == resolveConflicts(pre.clashedFiles, loc.resolutions)
        open == SelectSeq([i \in ClashIndexes |-> i],
                          LAMBDA i : ~loc.resolutions[i].noDiff)
        withOp == SelectSeq([i \in ClashIndexes |-> i],
                            LAMBDA i : loc.resolutions[i].fileOp # <<>>)
    IN /\ agg.noConflict <=> \A i \in ClashIndexes : loc.resolutions[i].noDiff
       /\ agg.unresolvedFiles = [k \in 1..Len(open) |-> pre.clashedFiles[open[k]]]
       /\ agg.fileOpsRecord =
            [k \in 1..Len(withOp) |-> loc.resolutions[withOp[k]].fileOp[1]]
       /\ (agg.unresolvedFiles = <<>>) <=> agg.noConflict
       /\ loc.unresolvedFiles = agg.unresolvedFiles
       /\ loc.fileOpsRecord = agg.fileOpsRecord

C29_Witness ==
  /\ Finished
  /\ ResolverDone
  /\ Len(pre.clashedFiles) = 2
  /\ loc.resolutions[1].noDiff
  /\ ~loc.resolutions[2].noDiff
  /\ loc.unresolvedFiles = <<pre.clashedFiles[2]>>
  /\ Len(loc.fileOpsRecord) = 1

\* --------------------------------------------------------------------- C28
\* C28: a call with status onlyRemoteCommitShaChanged goes from the pre-sync
\* check straight to the save without touching the vault, the remote or the
\* snapshot and without a remote call; its save, the only one, sets
\* lastFetchedCommitSha to the commit id of the pre-sync check and leaves
\* localSha, lastFetchedRemoteSha, the vault and the remote as they were.
C28_CommitIdOnly ==
  [][/\ (SyncCalled /\ pre'.status = "onlyRemoteCommitShaChanged") =>
          /\ pc' = "save"
          /\ loc'.calls = <<>>
          /\ pre'.latestRemoteCommitSha = ref
          /\ UNCHANGED <<vault, commits, ref, localSha, lastFetchedCommitSha,
                         lastFetchedRemoteSha, floating>>
     /\ (pre.status = "onlyRemoteCommitShaChanged" /\ pc = "save"
           /\ hist'.outcome = "ok") =>
          /\ pc' = "idle"
          /\ hist.saves = 0 /\ hist'.saves = 1
          /\ lastFetchedCommitSha' = pre.latestRemoteCommitSha
          /\ lastFetchedCommitSha' = ref
          /\ loc'.calls = <<>>
          /\ vault' = hist.startVault
          /\ UNCHANGED <<vault, ref, localSha, lastFetchedRemoteSha, floating>>
          /\ commits'[ref] = commits[ref]]_vars

C28_Witness ==
  /\ Finished
  /\ hist.status = "onlyRemoteCommitShaChanged"
  /\ hist.saves = 1
  /\ lastFetchedCommitSha = ref
  /\ commits[ref].parent # NoCommit
  /\ localSha # EmptyMap
  /\ lastFetchedRemoteSha # EmptyMap

\* --------------------------------------------------------------------- C25
\* The blob paths of a commit's tree outside _fit/, each with its content id.
TreeFingerprints(commit) ==
  LET tree == commits[commit].tree
      paths == {decryptPath(tok) : tok \in {t \in DOMAIN tree : CanDecryptPath(t)}}
  IN [p \in {q \in paths : ~UnderFit(q)} |-> tree[encryptPath(p)]]

\* C25: after a call that completed without error the saved commit id is the
\* head's and the saved remote fingerprint map is the map of that commit's
\* tree, in every branch and whether or not the call pushed or saved.
C25_SnapshotSelfConsistent ==
  Finished =>
    /\ lastFetchedCommitSha = ref
    /\ lastFetchedRemoteSha = TreeFingerprints(lastFetchedCommitSha)

C25_Witness ==
  /\ Finished
  /\ hist.status = "localAndRemoteChangesClashed"
  /\ hist.saves = 1
  /\ loc.createdCommitSha # NoCommit
  /\ lastFetchedCommitSha = loc.createdCommitSha
  /\ lastFetchedRemoteSha # pre.remoteTreeSha
  /\ lastFetchedRemoteSha = TreeFingerprints(lastFetchedCommitSha)

\* --------------------------------------------------------------------- C23
\* A clashed call with at least one unresolved clash has completed.
FinishedUnresolved ==
  /\ Finished
  /\ hist.status = "localAndRemoteChangesClashed"
  /\ loc.unresolvedFiles # <<>>

\* C23: a call with an unresolved clash hands every local change of the
\* pre-sync check to the push and applies locally the remote changes on the
\* paths that are not unresolved, and no other; after it the remote holds the
\* local version (or the absence) of each unresolved path, the local file is
\* as it was, and the remote version it displaced is in _fit/.
C23_UnresolvedPushedNotPulled ==
  FinishedUnresolved =>
    /\ loc.localChangesToPush = pre.localChanges
    /\ PathsOf(loc.localFileOpsRecord) =
         PathsOf(pre.remoteChanges) \ PathsOf(loc.unresolvedFiles)
    /\ \A i \in 1..Len(loc.unresolvedFiles) :
         LET p == loc.unresolvedFiles[i].path
         IN /\ vault[p] = hist.startVault[p]
            /\ vault[p] # NoFile <=> p \in DOMAIN HeadSha
            /\ p \in DOMAIN HeadSha => RemoteContent(p) = vault[p]
            /\ loc.unresolvedFiles[i].remoteStatus # "REMOVED" =>
                 vault[Quarantined(p)] =
                   base64ToArrayBuffer(getBlob(pre.remoteTreeSha[p]))

\* --------------------------------------------------------------------- C22
\* C22: once resolveConflicts has returned and the call goes on, no write it
\* started is still running or has failed unnoticed: the file of every
\* FileOpRecord with status created exists.
C22_FanOutJoined ==
  (ResolverDone /\ pc # "resolve") =>
    /\ ~hist.opFailed
    /\ \A k \in 1..Len(loc.fileOpsRecord) :
         LET op == loc.fileOpsRecord[k]
         IN op.status = "created" =>
              /\ \A w \in floating : w.path # op.path
              /\ vault[op.path] # NoFile

\* --------------------------------------------------------------------- C24
\* The clashes of the call that are deleted locally and present remotely.
DeletedLocallyClashes ==
  {i \in ClashIndexes :
     /\ pre.clashedFiles[i].localStatus = "deleted"
     /\ pre.clashedFiles[i].remoteStatus # "REMOVED"}

\* What the resolver returns for such a clash, and the deletion standing.
DeletedLocallyResolved(i) ==
  LET p == pre.clashedFiles[i].path
  IN /\ loc.resolutions[i] =
          [path |-> p, noDiff |-> FALSE,
           fileOp |-> <<[path |-> Quarantined(p), status |-> "created"]>>]
     /\ Len(SelectSeq(loc.fileOpsRecord,
                      LAMBDA op : op.path = Quarantined(p))) = 1
     /\ vault[p] = NoFile

\* C24: after a call that had a clash deleted locally and present remotely,
\* the clash is resolved with noDiff = false and the one FileOpRecord
\* {_fit/path, created}, _fit/path holds the remote content, and there is no
\* file at the path.
C24_DeletedLocallyQuarantined ==
  (Finished /\ ResolverDone) =>
    \A i \in DeletedLocallyClashes :
      /\ DeletedLocallyResolved(i)
      /\ vault[Quarantined(pre.clashedFiles[i].path)] =
           base64ToArrayBuffer(getBlob(pre.remoteTreeSha[pre.clashedFiles[i].path]))

\* --------------------------------------------------------------------- C27
\* The push of the running call has built its tree nodes.
PushBuilt ==
  /\ pc \in {"ref", "refetch", "pull", "save"}
  /\ pre.status \in {"onlyLocalChanged", "localAndRemoteChangesCompatible",
                      "localAndRemoteChangesClashed"}

\* C27: the push uploads one blob for each node it submits and none for a
\* path whose content id is the one of the remote tree's entry, submits no
\* deletion node for a path the remote tree lacks, and with no node at all
\* creates no tree and no commit and updates no ref.
C27_PushNoOp ==
  PushBuilt =>
    LET remoteTree == getTree(pre.latestRemoteCommitSha)
        lc == loc.localChangesToPush
        written == SelectSeq(loc.treeNodes, LAMBDA node : node.sha # NoSha)
        uploaded == SelectSeq(loc.calls, LAMBDA c : c = "createBlob")
    IN /\ Len(uploaded) = Len(written)
       /\ \A i \in 1..Len(lc) :
            (/\ lc[i].status = "deleted"
             /\ Every(remoteTree, LAMBDA node : node.path # lc[i].path)) =>
              ~Some(loc.treeNodes, LAMBDA node : node.path = lc[i].path)
       /\ \A i \in 1..Len(written) :
            ~Some(remoteTree, LAMBDA node : /\ node.path = written[i].path
                                           /\ node.sha = written[i].sha)
       /\ loc.treeNodes = <<>> =>
            /\ loc.createdCommitSha = NoCommit
            /\ ref = pre.latestRemoteCommitSha
            /\ ~Some(loc.calls,
                     LAMBDA c : c \in {"createTree", "createCommit", "updateRef"})

\* --------------------------------------------------------------------- C21
\* The head of the branch holds content c at path p (NoFile: no entry).
RemoteHolds(p, c) ==
  IF c = NoFile THEN p \notin DOMAIN HeadSha
  ELSE p \in DOMAIN HeadSha /\ RemoteContent(p) = c

\* The persisted localSha marks content c at path p as synced.
MarkedSynced(p, c) ==
  ~Differs(computeLocalShaOf([vault EXCEPT ![p] = c]), localSha, p)

\* C21: after a call of a pushing branch that ended without error and during
\* which the user edited a file, the head of the branch holds the edited
\* content, or the persisted localSha of the path differs from the fingerprint
\* of the edited content.
C21_EditNotMarkedSynced ==
  (Finished /\ hist.edited # NoEdit /\ hist.status \in PushingStatuses \cup Combined) =>
    \/ RemoteHolds(hist.edited.path, hist.edited.content)
    \/ ~MarkedSynced(hist.edited.path, hist.edited.content)

\* --------------------------------------------------------------------- C26
\* The commits reachable from commit c through the parent links.
RECURSIVE Reachable(_, _)
Reachable(cs, c) ==
  IF c = NoCommit THEN {} ELSE {c} \cup Reachable(cs, cs[c].parent)

====
